---------------------------- MODULE Spec2Model ----------------------------
(***************************************************************************)
(* A model of the pupil / iris segmentation service of src/cloud/main.py.  *)
(*                                                                         *)
(* The service is one asyncio event loop.  lifespan() loads and warms up   *)
(* the global model; every HTTP request then runs through the middleware   *)
(* log_requests(), one of the two handlers, and the synchronous pipeline   *)
(* run_inference().  A request gives the loop back only at an await.       *)
(*                                                                         *)
(* Numbers.  Python floats are modelled as fixed-point integers with       *)
(* Unit units to one (Unit is a multiple of IMG_SIZE and a power of two,   *)
(* so that orig_w / IMG_SIZE is exact as it is in binary floating point).  *)
(* Probabilities count ProbUnit-ths.  ratio counts 1/10^4 and the rounded  *)
(* confidences 1/10^3, the decimals round() keeps.                         *)
(*                                                                         *)
(* Images.  The model's output is a 256 x 256 x 3 tensor.  Only a window   *)
(* of WinW x WinH pixels in its top-left corner is ever non-background;    *)
(* the window's content is drawn from the catalogue Scenes.                *)
(***************************************************************************)
EXTENDS Integers, Sequences, FiniteSets, TLC

(***************************************************************************)
(* Bounds of the model.                                                    *)
(***************************************************************************)
NumReq == 2
WinW == 7
WinH == 5

(***************************************************************************)
(* Program constants.                                                      *)
(***************************************************************************)
IMG_SIZE == 256
NUM_CLASSES == 3
IRIS == 1
PUPIL == 2

Unit == 16 * IMG_SIZE
ProbUnit == 10

\* Optional values: None is the empty set, a present value v is {v}
None == {}
Some(v) == {v}
The(o) == CHOOSE v \in o : TRUE

(***************************************************************************)
(* Integer helpers.                                                        *)
(***************************************************************************)
Abs(n) == IF n < 0 THEN -n ELSE n

MinOf(S) == CHOOSE m \in S : \A k \in S : m <= k

RECURSIVE SqrtBits(_, _, _)
SqrtBits(n, r, b) ==
    IF b = 0 THEN r
    ELSE LET t == r + b
         IN  SqrtBits(n, IF t * t <= n THEN t ELSE r, b \div 2)

\* floor(sqrt(n)) for 0 <= n < 2^30
ISqrt(n) == SqrtBits(n, 0, 16384)

\* round-half-to-even of num / den (den > 0, num >= 0): Python's round()
RoundDiv(num, den) ==
    LET q == num \div den
        rem2 == 2 * (num % den)
    IN  IF rem2 > den \/ (rem2 = den /\ q % 2 = 1) THEN q + 1 ELSE q

(***************************************************************************)
(* The model's output tensor (main.py:194-196).  A scene is the window's   *)
(* rows, top to bottom; each entry is a code of ProbCode, the pixel's      *)
(* probabilities of background, iris and pupil in ProbUnit-ths.  Pixels    *)
(* outside the rows are certain background.                                *)
(***************************************************************************)
ProbCode ==
    << <<10, 0, 0>>,     \* code 0: background
       <<0, 10, 0>>,     \* code 1: iris, certain
       <<0, 0, 10>>,     \* code 2: pupil, certain
       <<2, 6, 2>>,      \* code 3: iris, 0.6
       <<1, 2, 7>>,      \* code 4: pupil, 0.7
       <<5, 5, 0>>,      \* code 5: background and iris tie
       <<0, 5, 5>>,      \* code 6: iris and pupil tie
       <<3, 3, 4>> >>    \* code 7: pupil, 0.4

Scenes ==
    << \* 1: nothing but background (one pixel a background / iris tie)
       << <<0,0,0,0,0,0,0>>,
          <<0,5,0,0,0,0,0>> >>,
       \* 2: a pupil disk, no iris
       << <<0,0,2,2,0,0,0>>,
          <<0,2,2,2,2,0,0>>,
          <<0,2,2,2,2,0,0>>,
          <<0,0,2,2,0,0,0>> >>,
       \* 3: an eye: an iris ring around a pupil
       << <<0,1,1,1,0,0,0>>,
          <<1,2,2,2,1,0,0>>,
          <<1,2,4,2,3,0,0>>,
          <<1,2,2,3,1,0,0>>,
          <<0,1,1,1,0,0,0>> >>,
       \* 4: the iris a 2 x 2 square (four contour points), a pupil blob
       << <<1,3,0,0,2,2,2>>,
          <<3,3,0,0,2,4,2>>,
          <<0,0,0,0,2,2,0>> >>,
       \* 5: the iris a one pixel wide zigzag (zero area), a pupil blob
       << <<1,1,0,0,0,0,0>>,
          <<0,0,1,0,1,0,0>>,
          <<2,2,2,1,0,0,0>>,
          <<2,2,2,0,0,0,0>>,
          <<2,2,0,0,0,0,0>> >>,
       \* 6: the pupil a zigzag (zero area), an iris blob
       << <<2,2,0,0,0,0,0>>,
          <<0,0,2,0,0,0,0>>,
          <<1,1,1,2,2,0,0>>,
          <<1,1,1,0,0,0,0>>,
          <<1,1,0,0,0,0,0>> >>,
       \* 7: iris: a 3 x 3 square (area 4, four points) and a smaller blob
       \*    (area 3.5, five points)
       << <<1,1,1,0,1,1,1>>,
          <<1,1,1,0,1,1,1>>,
          <<1,1,1,0,1,1,0>> >>,
       \* 8: iris: a zigzag and a single pixel found after it (both area 0)
       << <<1,1,0,0,0,0,1>>,
          <<0,0,1,0,0,0,0>>,
          <<0,0,0,1,1,0,0>> >>,
       \* 9: iris: a single pixel found before a zigzag (both area 0)
       << <<0,0,0,0,0,0,1>>,
          <<0,0,0,0,0,0,0>>,
          <<1,1,0,0,0,0,0>>,
          <<0,0,1,0,0,0,0>>,
          <<0,0,0,1,1,0,0>> >>,
       \* 10: two pupil regions of different confidence, an iris blob
       << <<4,4,4,0,7,7,0>>,
          <<4,4,4,0,0,0,0>>,
          <<4,4,0,0,6,6,6>>,
          <<0,0,0,0,6,6,6>>,
          <<0,0,0,0,6,6,0>> >>,
       \* 11: an iris ring with an iris pixel inside its hole
       << <<0,1,1,1,0,0,0>>,
          <<1,0,0,0,1,0,0>>,
          <<1,0,1,0,1,0,0>>,
          <<1,0,0,0,1,0,0>>,
          <<0,1,1,1,0,0,0>> >>,
       \* 12: a single pupil pixel and a two pixel iris
       << <<7,0,0,3,3,0,0>> >>
    >>

NumScenes == Len(Scenes)

\* the window's pixels <<x, y>>, and the window with a one pixel margin
Pixels == (0 .. WinW - 1) \X (0 .. WinH - 1)
Padded == (-1 .. WinW) \X (-1 .. WinH)

\* pred[y, x, :] of the output tensor for scene s
PredAt(s, p) ==
    LET rows == Scenes[s]
    IN  IF p[2] + 1 <= Len(rows) /\ p[1] + 1 <= Len(rows[p[2] + 1])
        THEN ProbCode[rows[p[2] + 1][p[1] + 1] + 1]
        ELSE ProbCode[1]

\* np.argmax over the last axis: the lowest index among the maxima
ArgMax(v) ==
    CHOOSE k \in 0 .. NUM_CLASSES - 1 :
        /\ \A j \in 0 .. NUM_CLASSES - 1 : v[j + 1] <= v[k + 1]
        /\ \A j \in 0 .. k - 1 : v[j + 1] < v[k + 1]

\* pred_mask = np.argmax(pred, axis=-1)
PredMask(s) == [p \in Pixels |-> ArgMax(PredAt(s, p))]

\* a variant: every pixel that is not background is foreground
BinaryNonZero(mask, class_id) == {p \in Pixels : mask[p] # 0}

\* binary = (mask == class_id): the set of foreground pixels
Binary(mask, class_id) == {p \in Pixels : mask[p] = class_id}

(***************************************************************************)
(* cv2.findContours(binary, RETR_EXTERNAL, CHAIN_APPROX_SIMPLE): border    *)
(* following of Suzuki and Abe.  Directions are OpenCV's codes 0 .. 7,     *)
(* counter-clockwise on the screen from east (y grows downwards).          *)
(***************************************************************************)
DX == <<1, 1, 0, -1, -1, -1, 0, 1>>
DY == <<0, -1, -1, -1, 0, 1, 1, 1>>
Nb(p, d) == <<p[1] + DX[d + 1], p[2] + DY[d + 1]>>

\* raster (scan) order of a pixel
Raster(p) == (p[2] + 1) * (WinW + 2) + p[1] + 1

Adj8(p, q) == p # q /\ Abs(p[1] - q[1]) <= 1 /\ Abs(p[2] - q[2]) <= 1
Adj4(p, q) == Abs(p[1] - q[1]) + Abs(p[2] - q[2]) = 1

\* the pixels of Area reachable from Seen, by frontier; conn is 8 or 4
RECURSIVE Grow(_, _, _, _)
Grow(Area, Seen, Front, conn) ==
    IF Front = {} THEN Seen
    ELSE LET new == {q \in Area \ Seen :
                       \E p \in Front :
                           IF conn = 8 THEN Adj8(p, q) ELSE Adj4(p, q)}
         IN  Grow(Area, Seen \cup new, new, conn)

\* the background connected to the outside of the image
Outside(F) == Grow(Padded \ F, {<<-1, -1>>}, {<<-1, -1>>}, 4)

\* the first pixel of a set in scan order
FirstPixel(S) == CHOOSE p \in S : \A q \in S : Raster(p) <= Raster(q)

\* the 8-connected components of F, in the order the scan meets them
RECURSIVE Components(_)
Components(F) ==
    IF F = {} THEN <<>>
    ELSE LET p0 == FirstPixel(F)
             comp == Grow(F, {p0}, {p0}, 8)
         IN  <<comp>> \o Components(F \ comp)

\* the first neighbour of i0 in F, clockwise from west (the start of the
\* outer border); -1 for a single pixel
FirstClockwise(F, i0) ==
    LET order == <<3, 2, 1, 0, 7, 6, 5>>
        hits == {i \in 1 .. 7 : Nb(i0, order[i]) \in F}
    IN  IF hits = {} THEN -1 ELSE order[MinOf(hits)]

\* the first neighbour of i3 in F, counter-clockwise after direction s
NextCounterClockwise(F, i3, s) ==
    LET k == MinOf({j \in 1 .. 8 : Nb(i3, (s + j) % 8) \in F})
    IN  (s + k) % 8

\* the border following loop; CHAIN_APPROX_SIMPLE writes a point only where
\* the direction changes (s # prev_s)
RECURSIVE FollowBorder(_, _, _, _, _, _, _)
FollowBorder(F, i0, i1, i3, s, prev_s, acc) ==
    LET d == NextCounterClockwise(F, i3, s)
        i4 == Nb(i3, d)
        out == IF d # prev_s THEN Append(acc, i3) ELSE acc
    IN  IF i4 = i0 /\ i3 = i1 THEN out
        ELSE FollowBorder(F, i0, i1, i4, (d + 4) % 8, d, out)

\* the outer border of the component comp, from its first pixel
FetchContour(comp) ==
    LET i0 == FirstPixel(comp)
        s == FirstClockwise(comp, i0)
    IN  IF s = -1 THEN <<i0>>
        ELSE FollowBorder(comp, i0, Nb(i0, s), i0, s, (s + 4) % 8, <<>>)

RECURSIVE Reverse(_)
Reverse(sq) == IF sq = <<>> THEN <<>> ELSE Reverse(Tail(sq)) \o <<Head(sq)>>

\* RETR_EXTERNAL keeps the components that no other component encloses;
\* OpenCV returns the contours last found first
FindContours(F) ==
    LET comps == Components(F)
        out == Outside(F)
        ext == SelectSeq(comps,
                 LAMBDA c : <<FirstPixel(c)[1] - 1, FirstPixel(c)[2]>> \in out)
    IN  Reverse([i \in 1 .. Len(ext) |-> FetchContour(ext[i])])

(***************************************************************************)
(* cv2.contourArea, cv2.moments and cv2.minEnclosingCircle of a contour.   *)
(***************************************************************************)
\* the point before point i, cyclically
PrevIdx(c, i) == IF i = 1 THEN Len(c) ELSE i - 1

RECURSIVE SumTo(_, _)
SumTo(f, n) == IF n = 0 THEN 0 ELSE f[n] + SumTo(f, n - 1)

\* the cross product OpenCV calls dxy, for the edge that ends in point i
Dxy(c, i) ==
    c[PrevIdx(c, i)][1] * c[i][2] - c[i][1] * c[PrevIdx(c, i)][2]

\* Green's formula: twice the signed area
A00(c) == SumTo([i \in 1 .. Len(c) |-> Dxy(c, i)], Len(c))

\* cv2.contourArea(c), doubled: the area is a multiple of one half
ContourArea2(c) == Abs(A00(c))

\* cv2.moments(c): m00 doubled, m10 and m01 times six; the sign of a00 is
\* taken out of all three
Moments(c) ==
    LET a00 == A00(c)
        a10 == SumTo([i \in 1 .. Len(c) |->
                        Dxy(c, i) * (c[PrevIdx(c, i)][1] + c[i][1])], Len(c))
        a01 == SumTo([i \in 1 .. Len(c) |->
                        Dxy(c, i) * (c[PrevIdx(c, i)][2] + c[i][2])], Len(c))
        sgn == IF a00 < 0 THEN -1 ELSE 1
    IN  [m00x2 |-> sgn * a00, m10x6 |-> sgn * a10, m01x6 |-> sgn * a01]

\* circles with centre (X / d, Y / d) and squared radius R / d^2
CircleOn2(p, q) ==
    [X |-> p[1] + q[1], Y |-> p[2] + q[2], d |-> 2,
     R |-> (p[1] - q[1]) * (p[1] - q[1]) + (p[2] - q[2]) * (p[2] - q[2])]

Det3(a, b, c) ==
    a[1] * (b[2] - c[2]) + b[1] * (c[2] - a[2]) + c[1] * (a[2] - b[2])

Norm2(p) == p[1] * p[1] + p[2] * p[2]

CircleOn3(a, b, c) ==
    LET D == 2 * Det3(a, b, c)
        sgn == IF D < 0 THEN -1 ELSE 1
        X == sgn * (Norm2(a) * (b[2] - c[2]) + Norm2(b) * (c[2] - a[2])
                    + Norm2(c) * (a[2] - b[2]))
        Y == sgn * (Norm2(a) * (c[1] - b[1]) + Norm2(b) * (a[1] - c[1])
                    + Norm2(c) * (b[1] - a[1]))
        d == sgn * D
    IN  [X |-> X, Y |-> Y, d |-> d,
         R |-> (a[1] * d - X) * (a[1] * d - X) + (a[2] * d - Y) * (a[2] * d - Y)]

Encloses(k, p) ==
    (p[1] * k.d - k.X) * (p[1] * k.d - k.X)
      + (p[2] * k.d - k.Y) * (p[2] * k.d - k.Y) <= k.R

\* cv2.minEnclosingCircle(c)[0]: the centre of the smallest circle around
\* the points, which two or three of them determine
MinEnclosingCenter(c) ==
    LET pts == {c[i] : i \in 1 .. Len(c)}
        cands == {CircleOn2(p, q) : p \in pts, q \in pts}
                 \cup {CircleOn3(t[1], t[2], t[3]) :
                         t \in {u \in pts \X pts \X pts :
                                  Det3(u[1], u[2], u[3]) # 0}}
        ok == {k \in cands : \A p \in pts : Encloses(k, p)}
        best == CHOOSE k \in ok :
                    \A k2 \in ok : k.R * k2.d * k2.d <= k2.R * k.d * k.d
    IN  <<(best.X * Unit) \div best.d, (best.Y * Unit) \div best.d>>

(***************************************************************************)
(* fit_circle_from_mask (main.py:130-163).                                 *)
(***************************************************************************)
\* max(contours, key=cv2.contourArea): Python's max keeps the first of
\* several maxima
RECURSIVE MaxFrom(_, _, _)
MaxFrom(cs, best, i) ==
    IF i > Len(cs) THEN best
    ELSE MaxFrom(cs,
                 IF ContourArea2(cs[i]) > ContourArea2(best) THEN cs[i] ELSE best,
                 i + 1)

Largest(contours) == MaxFrom(contours, contours[1], 2)

\* len(largest) < 5
MIN_POINTS == 5

\* a variant: a contour of exactly five points is rejected too
TooFewPointsOffByOne(c) == Len(c) <= MIN_POINTS

TooFewPoints(c) == Len(c) < MIN_POINTS

\* a variant: the first point of the contour stands in for the centre when
\* m00 = 0
CenterFirstPoint(c) ==
    LET M == Moments(c)
    IN  IF M.m00x2 > 0
        THEN <<(M.m10x6 * Unit) \div (3 * M.m00x2),
               (M.m01x6 * Unit) \div (3 * M.m00x2)>>
        ELSE <<c[1][1] * Unit, c[1][2] * Unit>>

\* cx, cy: the centroid from the moments when m00 > 0, else the centre of
\* the minimal enclosing circle
Center(c) ==
    LET M == Moments(c)
    IN  IF M.m00x2 > 0
        THEN <<(M.m10x6 * Unit) \div (3 * M.m00x2),
               (M.m01x6 * Unit) \div (3 * M.m00x2)>>
        ELSE MinEnclosingCenter(c)

\* radius = float(np.sqrt(area / np.pi)), with pi as 355 / 113
EffectiveRadius(c) ==
    ISqrt(((ContourArea2(c) * Unit * 113) \div (2 * 355)) * Unit)

FitContours(contours) ==
    IF contours = <<>> THEN None
    ELSE LET largest == Largest(contours)
         IN  IF TooFewPoints(largest) THEN None
             ELSE Some([x |-> Center(largest)[1], y |-> Center(largest)[2],
                        radius |-> EffectiveRadius(largest)])

fit_circle_from_mask(mask, class_id) ==
    FitContours(FindContours(Binary(mask, class_id)))

\* The mask, the contours and the circles of every scene, tabulated: they
\* depend on the scene alone
Classes == {IRIS, PUPIL}
MaskOf == [s \in 1 .. NumScenes |-> PredMask(s)]
ContoursOf ==
    [s \in 1 .. NumScenes |->
       [c \in Classes |-> FindContours(Binary(MaskOf[s], c))]]
FitOf ==
    [s \in 1 .. NumScenes |->
       [c \in Classes |-> fit_circle_from_mask(MaskOf[s], c)]]

(***************************************************************************)
(* The arithmetic of run_inference (main.py:205-227).                      *)
(***************************************************************************)
\* the product of two fixed-point numbers
Mul(a, b) == (a * b) \div Unit

\* scale_x = orig_w / IMG_SIZE (and scale_y, of orig_h)
Scale(orig) == (orig * Unit) \div IMG_SIZE

\* a variant: the radius is scaled as x is
AvgScaleX(orig_w, orig_h) == Scale(orig_w)

\* avg_scale = (scale_x + scale_y) / 2
AvgScale(orig_w, orig_h) == (Scale(orig_w) + Scale(orig_h)) \div 2

\* lines 210-218: the circle, a dict, is scaled in place
Rescale(circle, orig_w, orig_h) ==
    IF circle = None THEN None
    ELSE Some([x |-> Mul(The(circle).x, Scale(orig_w)),
               y |-> Mul(The(circle).y, Scale(orig_h)),
               radius |-> Mul(The(circle).radius, AvgScale(orig_w, orig_h))])

RECURSIVE SumOver(_, _, _)
SumOver(s, P, ch) ==
    IF P = {} THEN 0
    ELSE LET p == CHOOSE q \in P : TRUE
         IN  PredAt(s, p)[ch + 1] + SumOver(s, P \ {p}, ch)

\* a variant: the mean is taken over the whole channel of the 256 x 256
\* tensor, not over the pixels of the class
ConfidenceWholeChannel(s, mask, class_id) ==
    IF Binary(mask, class_id) # {}
    THEN [num |-> SumOver(s, Pixels, class_id),
          den |-> IMG_SIZE * IMG_SIZE * ProbUnit]
    ELSE [num |-> 0, den |-> 1]

\* lines 221-222: float(np.mean(pred[..., c][pred_mask == c])) if
\* np.any(pred_mask == c) else 0.0, as the exact fraction num / den
Confidence(s, mask, class_id) ==
    LET P == Binary(mask, class_id)
    IN  IF P # {}
        THEN [num |-> SumOver(s, P, class_id), den |-> Cardinality(P) * ProbUnit]
        ELSE [num |-> 0, den |-> 1]

\* round(conf, 3), in thousandths
Round3(conf) == RoundDiv(conf.num * 1000, conf.den)

\* a variant: the guard without its test of the radius
RatioGuardNoRadiusTest(pupil_circle, iris_circle) ==
    pupil_circle # None /\ iris_circle # None

\* lines 225-227: the guard of the division
RatioGuard(pupil_circle, iris_circle) ==
    pupil_circle # None /\ iris_circle # None /\ The(iris_circle).radius > 0

\* the division of line 227 raises ZeroDivisionError for a zero divisor
RatioRaises(pupil_circle, iris_circle) ==
    RatioGuard(pupil_circle, iris_circle) /\ The(iris_circle).radius = 0

\* ratio: round(pupil / iris, 4), in ten-thousandths, or None
Ratio(pupil_circle, iris_circle) ==
    IF RatioGuard(pupil_circle, iris_circle)
    THEN Some(RoundDiv(The(pupil_circle).radius * 10000,
                       The(iris_circle).radius))
    ELSE None

(***************************************************************************)
(* The process: the lifespan, the middleware, the handlers, the pipeline.  *)
(***************************************************************************)
VARIABLES
    phase,          \* where lifespan() is: "startup", "loaded", "serving",
                    \* "aborted" (startup raised) or "shutdown"
    model,          \* the global model: "None" or "loaded"
    warmed,         \* the warmup call of line 64 has returned
    request_count,  \* the global request_count
    running,        \* the request that holds the event loop, 0 for none
    req             \* per request: where it is, and its local variables

vars == <<phase, model, warmed, request_count, running, req>>

Requests == 1 .. NumReq

\* the sizes (width, height) of the images that decode
ImageSizes == {<<256, 256>>, <<640, 480>>}

\* the byte strings a request carries: an image, bytes that are no image,
\* no bytes at all, more than 10 MB
Bytes(kind, w, h) == [kind |-> kind, w |-> w, h |-> h]
Contents ==
    {Bytes("image", sz[1], sz[2]) : sz \in ImageSizes}
      \cup {Bytes("garbage", 0, 0), Bytes("empty", 0, 0), Bytes("oversize", 0, 0)}

\* len(contents) > 10 * 1024 * 1024
TooLarge(bytes) == bytes.kind = "oversize"

\* cv2.imdecode(nparr, cv2.IMREAD_COLOR): the image, or None for bytes it
\* cannot decode
Imdecode(bytes) ==
    IF bytes.kind = "image" THEN Some([w |-> bytes.w, h |-> bytes.h]) ELSE None

\* cv2.imdecode asserts !buf.empty(): an empty buffer raises cv2.error
ImdecodeRaises(bytes) == bytes.kind = "empty"

Fresh ==
    [pc |-> "new", endpoint |-> "", image_bytes |-> None, img |-> None,
     pred |-> None, pred_mask |-> None,
     pupil_circle |-> None, iris_circle |-> None,
     pupil_conf |-> None, iris_conf |-> None,
     result |-> None, error |-> "", status |-> 0, logged |-> 0]

\* a variant: the model call is awaited, and gives up the event loop
SuspendsAtModelCall(pc) ==
    pc \in {"new", "handler", "read", "mw_exit", "done", "inferred"}

\* the positions at which a request waits at an await (or has not come, or
\* has gone) and the event loop is free for another request: line 96
\* (await call_next) and line 254 (await image.read()).  run_inference has
\* no await
Suspends(pc) == pc \in {"new", "handler", "read", "mw_exit", "done"}

\* request r may take a step: the loop is its own, or free while it waits
Scheduled(r) == running = (IF Suspends(req[r].pc) THEN 0 ELSE r)

\* the loop after r moved to pc
Loop(r, pc) == IF Suspends(pc) THEN 0 ELSE r

\* the status of the response the framework makes of an exception
StatusOf(error) == IF error = "HTTPException" THEN 400 ELSE 500

\* a variant: the exception is logged and swallowed, and the server starts
StartupSwallowed == "serving"

\* what lifespan() leaves behind when load or warmup raises: line 68
\* re-raises, and the server does not start
StartupFailed == "aborted"

\* a variant: the increment is lost
IncrementLost(n) == n

\* request_count += 1
Increment(n) == n + 1

Init ==
    /\ phase = "startup"
    /\ model = "None"
    /\ warmed = FALSE
    /\ request_count = 0
    /\ running = 0
    /\ req = [r \in Requests |-> Fresh]

\* lifespan, lines 58-61: model = tf.saved_model.load(MODEL_PATH)
LoadModel ==
    /\ phase = "startup"
    /\ \/ /\ model' = "loaded"
          /\ phase' = "loaded"
       \/ /\ model' = model
          /\ phase' = StartupFailed
    /\ UNCHANGED <<warmed, request_count, running, req>>

\* lifespan, lines 62-69: the warmup call on a zero tensor, then the yield
Warmup ==
    /\ phase = "loaded"
    /\ \/ /\ warmed' = TRUE
          /\ phase' = "serving"
       \/ /\ warmed' = warmed
          /\ phase' = StartupFailed
    /\ UNCHANGED <<model, request_count, running, req>>

\* lifespan, line 70: the server stops once no request is in flight
Shutdown ==
    /\ phase = "serving"
    /\ \A r \in Requests : req[r].pc \in {"new", "done"}
    /\ phase' = "shutdown"
    /\ UNCHANGED <<model, warmed, request_count, running, req>>

\* log_requests, lines 93-96: count the request, call the handler
MwEnter(r) ==
    /\ phase = "serving"
    /\ req[r].pc = "new"
    /\ Scheduled(r)
    /\ request_count' = Increment(request_count)
    /\ \E e \in {"detect", "base64", "health"} :
          req' = [req EXCEPT ![r].pc = "handler", ![r].endpoint = e]
    /\ running' = Loop(r, "handler")
    /\ UNCHANGED <<phase, model, warmed>>

\* the handler raised an HTTPException before run_inference
Reject(r) ==
    [req EXCEPT ![r] = [Fresh EXCEPT !.pc = "mw_exit",
                                     !.status = StatusOf("HTTPException")]]

\* detect_pupil, lines 251-254: the content type, then await image.read()
DetectStart(r) ==
    /\ req[r].pc = "handler"
    /\ req[r].endpoint = "detect"
    /\ Scheduled(r)
    /\ \E is_image \in BOOLEAN :
          IF is_image
          THEN /\ req' = [req EXCEPT ![r].pc = "read"]
               /\ running' = Loop(r, "read")
          ELSE /\ req' = Reject(r)
               /\ running' = Loop(r, "mw_exit")
    /\ UNCHANGED <<phase, model, warmed, request_count>>

\* detect_pupil, lines 254-258: the bytes read, the size limit, and the
\* call of run_inference
DetectRead(r) ==
    /\ req[r].pc = "read"
    /\ Scheduled(r)
    /\ \E contents \in Contents :
          IF TooLarge(contents)
          THEN /\ req' = Reject(r)
               /\ running' = Loop(r, "mw_exit")
          ELSE /\ req' = [req EXCEPT ![r].pc = "decode",
                                     ![r].image_bytes = Some(contents)]
               /\ running' = Loop(r, "decode")
    /\ UNCHANGED <<phase, model, warmed, request_count>>

\* detect_pupil_base64, lines 270-288: data is "missing" (no image field),
\* "invalid" (b64decode raises) or decodes to bytes
Base64Handler(r) ==
    /\ req[r].pc = "handler"
    /\ req[r].endpoint = "base64"
    /\ Scheduled(r)
    /\ \E data \in {"missing", "invalid", "encoded"} :
       \E image_bytes \in Contents :
          IF data # "encoded" \/ TooLarge(image_bytes)
          THEN /\ req' = Reject(r)
               /\ running' = Loop(r, "mw_exit")
          ELSE /\ req' = [req EXCEPT ![r].pc = "decode",
                                     ![r].image_bytes = Some(image_bytes)]
               /\ running' = Loop(r, "decode")
    /\ UNCHANGED <<phase, model, warmed, request_count>>

\* health_check, lines 292-300
HealthCheck(r) ==
    /\ req[r].pc = "handler"
    /\ req[r].endpoint = "health"
    /\ Scheduled(r)
    /\ req' = [req EXCEPT ![r] =
                 [Fresh EXCEPT
                    !.pc = "mw_exit",
                    !.status = 200,
                    !.result = Some([model_loaded |-> model # "None",
                                     requests_served |-> request_count])]]
    /\ running' = Loop(r, "mw_exit")
    /\ UNCHANGED <<phase, model, warmed, request_count>>

\* an exception leaves run_inference
Raise(r, error) == [req EXCEPT ![r].pc = "raised", ![r].error = error]

\* run_inference, lines 176-185: decode the bytes
Decode(r) ==
    /\ req[r].pc = "decode"
    /\ Scheduled(r)
    /\ LET image_bytes == The(req[r].image_bytes)
           img == Imdecode(image_bytes)
       IN  IF ImdecodeRaises(image_bytes)
           THEN /\ req' = Raise(r, "cv2.error")
                /\ running' = Loop(r, "raised")
           ELSE IF img = None
           THEN /\ req' = Raise(r, "HTTPException")
                /\ running' = Loop(r, "raised")
           ELSE /\ req' = [req EXCEPT ![r].pc = "decoded", ![r].img = img]
                /\ running' = Loop(r, "decoded")
    /\ UNCHANGED <<phase, model, warmed, request_count>>

\* run_inference, lines 187-196: resize, normalise, and call the model; the
\* model answers with one of the scenes.  model.signatures of a None model
\* raises AttributeError
Infer(r) ==
    /\ req[r].pc = "decoded"
    /\ Scheduled(r)
    /\ IF model = "None"
       THEN /\ req' = Raise(r, "AttributeError")
            /\ running' = Loop(r, "raised")
       ELSE /\ \E s \in 1 .. NumScenes :
                  req' = [req EXCEPT ![r].pc = "inferred", ![r].pred = Some(s)]
            /\ running' = Loop(r, "inferred")
    /\ UNCHANGED <<phase, model, warmed, request_count>>

\* run_inference, lines 198-203: pred_mask = np.argmax(pred, axis=-1), then
\* fit_circle_from_mask(pred_mask, 2) and fit_circle_from_mask(pred_mask, 1)
Fit(r) ==
    /\ req[r].pc = "inferred"
    /\ Scheduled(r)
    /\ LET pred == The(req[r].pred)
       IN  req' = [req EXCEPT
                     ![r].pc = "fitted",
                     ![r].pred_mask = Some(MaskOf[pred]),
                     ![r].pupil_circle = FitOf[pred][PUPIL],
                     ![r].iris_circle = FitOf[pred][IRIS]]
    /\ running' = Loop(r, "fitted")
    /\ UNCHANGED <<phase, model, warmed, request_count>>

\* run_inference, lines 205-218: back to the coordinates of the image
RescaleCircles(r) ==
    /\ req[r].pc = "fitted"
    /\ Scheduled(r)
    /\ LET orig_w == The(req[r].img).w
           orig_h == The(req[r].img).h
       IN  req' = [req EXCEPT
                     ![r].pc = "rescaled",
                     ![r].pupil_circle = Rescale(@, orig_w, orig_h),
                     ![r].iris_circle = Rescale(@, orig_w, orig_h)]
    /\ running' = Loop(r, "rescaled")
    /\ UNCHANGED <<phase, model, warmed, request_count>>

\* the DetectionResponse of lines 231-240 (inference_ms, a wall clock
\* reading, is left out)
DetectionResponse(pupil, iris, pupil_conf, iris_conf, ratio) ==
    [pupil |-> pupil, iris |-> iris,
     confidence |-> [pupil |-> Round3(pupil_conf), iris |-> Round3(iris_conf)],
     ratio |-> ratio]

\* run_inference, lines 220-240: the confidences, the ratio, the response
Assemble(r) ==
    /\ req[r].pc = "rescaled"
    /\ Scheduled(r)
    /\ LET pred == The(req[r].pred)
           pred_mask == The(req[r].pred_mask)
           pupil_conf == Confidence(pred, pred_mask, PUPIL)
           iris_conf == Confidence(pred, pred_mask, IRIS)
           pupil_circle == req[r].pupil_circle
           iris_circle == req[r].iris_circle
       IN  IF RatioRaises(pupil_circle, iris_circle)
           THEN /\ req' = [Raise(r, "ZeroDivisionError") EXCEPT
                             ![r].pupil_conf = Some(pupil_conf),
                             ![r].iris_conf = Some(iris_conf)]
                /\ running' = Loop(r, "raised")
           ELSE /\ req' = [req EXCEPT
                             ![r].pc = "assembled",
                             ![r].pupil_conf = Some(pupil_conf),
                             ![r].iris_conf = Some(iris_conf),
                             ![r].result =
                                 Some(DetectionResponse(
                                        pupil_circle, iris_circle,
                                        pupil_conf, iris_conf,
                                        Ratio(pupil_circle, iris_circle)))]
                /\ running' = Loop(r, "assembled")
    /\ UNCHANGED <<phase, model, warmed, request_count>>

\* lines 258 and 288: run_inference returns or raises, the handler with it;
\* the framework makes the response and the locals are gone
Return(r) ==
    /\ req[r].pc \in {"assembled", "raised"}
    /\ Scheduled(r)
    /\ req' = [req EXCEPT ![r] =
                 [Fresh EXCEPT
                    !.pc = "mw_exit",
                    !.status = IF req[r].pc = "raised"
                               THEN StatusOf(req[r].error) ELSE 200]]
    /\ running' = Loop(r, "mw_exit")
    /\ UNCHANGED <<phase, model, warmed, request_count>>

\* log_requests, lines 96-106: call_next returns the response and the line
\* is logged with the current request_count; an exception that is no
\* HTTPException passes through call_next, and nothing is logged
MwExit(r) ==
    /\ req[r].pc = "mw_exit"
    /\ Scheduled(r)
    /\ req' = [req EXCEPT ![r] =
                 [Fresh EXCEPT
                    !.pc = "done",
                    !.status = req[r].status,
                    !.logged = IF req[r].status = 500 THEN 0 ELSE request_count]]
    /\ running' = Loop(r, "done")
    /\ UNCHANGED <<phase, model, warmed, request_count>>

Next ==
    \/ LoadModel
    \/ Warmup
    \/ Shutdown
    \/ \E r \in Requests : MwEnter(r)
    \/ \E r \in Requests : DetectStart(r)
    \/ \E r \in Requests : DetectRead(r)
    \/ \E r \in Requests : Base64Handler(r)
    \/ \E r \in Requests : HealthCheck(r)
    \/ \E r \in Requests : Decode(r)
    \/ \E r \in Requests : Infer(r)
    \/ \E r \in Requests : Fit(r)
    \/ \E r \in Requests : RescaleCircles(r)
    \/ \E r \in Requests : Assemble(r)
    \/ \E r \in Requests : Return(r)
    \/ \E r \in Requests : MwExit(r)

Spec == Init /\ [][Next]_vars

(***************************************************************************)
(* The claims.                                                             *)
(***************************************************************************)
\* the positions inside run_inference
InPipeline(r) ==
    req[r].pc \in {"decode", "decoded", "inferred", "fitted", "rescaled",
                   "assembled", "raised"}

\* run_inference is about to return its result
Returned(r) == req[r].pc = "assembled"

\* the pixels the mask of request r gives to class c
ClassPixels(r, c) == {p \in Pixels : The(req[r].pred_mask)[p] = c}

\* the circle of class c among the locals of request r
CircleOf(r, c) == IF c = PUPIL THEN req[r].pupil_circle ELSE req[r].iris_circle

\* the confidence of class c among the locals of request r
ConfOf(r, c) == IF c = PUPIL THEN The(req[r].pupil_conf) ELSE The(req[r].iris_conf)

\* q is num / den rounded to the nearest integer
IsRounded(q, num, den) == 2 * Abs(q * den - num) <= den

\* C1: in every result of run_inference the ratio is present exactly when
\* the pupil and the iris circle are present and the iris radius is greater
\* than zero; it is then pupil.radius / iris.radius rounded to four
\* decimals; and no request ever divides by a zero iris radius.
C1_RatioPresence ==
    \A r \in Requests :
        /\ req[r].error # "ZeroDivisionError"
        /\ Returned(r) =>
             LET res == The(req[r].result)
             IN  /\ res.ratio # None <=>
                       /\ res.pupil # None
                       /\ res.iris # None
                       /\ The(res.iris).radius > 0
                 /\ res.ratio # None =>
                       IsRounded(The(res.ratio),
                                 The(res.pupil).radius * 10000,
                                 The(res.iris).radius)

\* a result with a ratio greater than zero
C1_Witness ==
    \E r \in Requests :
        /\ Returned(r)
        /\ The(req[r].result).ratio # None
        /\ The(The(req[r].result).ratio) > 0

\* C2: bytes that do not decode make run_inference raise the decode error
\* (the HTTPException of line 182) before the model is called, and no
\* result is made.
C2_DecodeError ==
    \A r \in Requests :
        (/\ req[r].image_bytes # None
         /\ The(req[r].image_bytes).kind # "image"
         /\ req[r].pc # "decode")
        => /\ req[r].pc = "raised"
           /\ req[r].error = "HTTPException"
           /\ req[r].pred = None
           /\ req[r].result = None

\* C3: a class without a pixel in the mask has no circle and confidence
\* 0.0, and nothing is raised; a mask of background alone gives no circle,
\* two confidences of 0.0 and no ratio.
C3_EmptyClass ==
    \A r \in Requests :
        req[r].pred_mask # None =>
            /\ \A c \in Classes :
                  ClassPixels(r, c) = {} =>
                      /\ CircleOf(r, c) = None
                      /\ req[r].pc # "raised"
                      /\ Returned(r) =>
                            /\ ConfOf(r, c).num = 0
                            /\ The(req[r].result).confidence
                                   [IF c = PUPIL THEN "pupil" ELSE "iris"] = 0
            /\ (Returned(r) /\ \A c \in Classes : ClassPixels(r, c) = {}) =>
                  /\ The(req[r].result).pupil = None
                  /\ The(req[r].result).iris = None
                  /\ The(req[r].result).ratio = None

\* a result for a mask of background alone
C3_Witness ==
    \E r \in Requests :
        /\ Returned(r)
        /\ \A c \in Classes : ClassPixels(r, c) = {}
        /\ The(req[r].result).confidence = [pupil |-> 0, iris |-> 0]

\* the state part of C4
C4_State ==
    /\ \A r \in Requests :
          req[r].pc # "new" => model = "loaded" /\ warmed /\ phase # "aborted"
    /\ phase \in {"serving", "shutdown"} => model = "loaded" /\ warmed
    /\ phase = "aborted" => request_count = 0

\* the step part of C4
C4_Step ==
    /\ phase = "aborted" => phase' = "aborted"
    /\ phase \in {"serving", "shutdown", "aborted"} =>
          model' = model /\ warmed' = warmed

\* C4: no request is accepted, and none reaches the model call, unless the
\* load and the warmup of lifespan() have both succeeded; a failure of
\* either aborts the startup for good; and once the startup is over the
\* global model is never written again.
C4_Startup == []C4_State /\ [][C4_Step]_vars

\* a request has called the model
C4_Witness ==
    \E r \in Requests : req[r].pred # None /\ phase = "serving"

\* after is before, rescaled for an image of W x H
C5_Rescaled(before, after, W, H) ==
    /\ before = None <=> after = None
    /\ before # None =>
          /\ The(after).x = (The(before).x * W) \div IMG_SIZE
          /\ The(after).y = (The(before).y * H) \div IMG_SIZE
          /\ The(after).radius = (The(before).radius * (W + H)) \div (2 * IMG_SIZE)
    /\ (W = IMG_SIZE /\ H = IMG_SIZE) => after = before

\* the step part of C5: the rescaling step
C5_Step ==
    \A r \in Requests :
        (req[r].pc = "fitted" /\ req'[r].pc = "rescaled") =>
            /\ C5_Rescaled(req[r].pupil_circle, req'[r].pupil_circle,
                           The(req[r].img).w, The(req[r].img).h)
            /\ C5_Rescaled(req[r].iris_circle, req'[r].iris_circle,
                           The(req[r].img).w, The(req[r].img).h)

\* the state part of C5: the circles of the result
C5_State ==
    \A r \in Requests :
        Returned(r) =>
            /\ The(req[r].result).pupil = req[r].pupil_circle
            /\ The(req[r].result).iris = req[r].iris_circle

\* C5: the rescaling takes a circle (cx, cy, r) in model space to the
\* centre (cx * W / 256, cy * H / 256) and the radius
\* r * ((W / 256 + H / 256) / 2), for the pupil and the iris alike; for
\* W = H = 256 it changes nothing; an absent circle stays absent; and the
\* result carries the rescaled circles.
C5_Rescaling == []C5_State /\ [][C5_Step]_vars

\* both circles rescaled for an image that is not square
C5_Witness ==
    \E r \in Requests :
        /\ req[r].pc = "rescaled"
        /\ The(req[r].img).w # The(req[r].img).h
        /\ req[r].pupil_circle # None
        /\ req[r].iris_circle # None
        /\ The(req[r].iris_circle).radius > 0

\* the state part of C6
C6_State == Cardinality({r \in Requests : InPipeline(r)}) <= 1

\* the step part of C6
C6_Step ==
    \A r \in Requests :
        InPipeline(r) => \A q \in Requests \ {r} : req'[q] = req[q]

\* C6: run_inference runs to its end without giving up the event loop: at
\* most one request is inside it, and while one is, no other request takes
\* a step.
C6_RunToCompletion == []C6_State /\ [][C6_Step]_vars

\* one request in the pipeline while another waits at an await
C6_Witness ==
    \E r, q \in Requests :
        /\ req[r].pc = "fitted"
        /\ req[q].pc \in {"handler", "read", "mw_exit"}

\* C7 as stated: handling a request writes no process-wide variable.
C7_NoGlobalWritten == [][request_count' = request_count]_vars

\* the state part of C7 as amended
C7_State ==
    /\ request_count = Cardinality({r \in Requests : req[r].pc # "new"})
    /\ \A r \in Requests :
          req[r].logged # 0 => req[r].logged \in 1 .. request_count

\* the step part of C7 as amended
C7_Step ==
    /\ phase = "serving" => model' = model
    /\ request_count' # request_count =>
          /\ request_count' = request_count + 1
          /\ \E r \in Requests : req[r].pc = "new" /\ req'[r].pc = "handler"
    /\ Cardinality({r \in Requests : req'[r] # req[r]}) <= 1

\* C7 as amended: the model is not written while requests are handled; the
\* one process-wide variable a request writes is request_count, which the
\* middleware increments by one when the request comes in, so that it counts
\* the requests that have come in; and a step of a request changes the
\* locals of that request alone.
C7_OnlyTheCounter == []C7_State /\ [][C7_Step]_vars

\* two requests have logged the same request number
C7_Witness ==
    \E r, q \in Requests :
        /\ r # q
        /\ req[r].pc = "done" /\ req[q].pc = "done"
        /\ req[r].logged = 2 /\ req[q].logged = 2

\* the sum of probability channel c over the pixels of P, by value
ChannelSum(r, P, c) ==
    LET vals == 0 .. ProbUnit
        count == [v \in vals |->
                    v * Cardinality({p \in P : PredAt(The(req[r].pred), p)[c + 1] = v})]
    IN  SumTo([i \in 1 .. ProbUnit + 1 |-> count[i - 1]], ProbUnit + 1)

\* C8: the confidence of a class is the mean of its probability channel
\* over exactly the pixels the mask gives to the class, whatever contour
\* was selected; a class with pixels but without a circle has a confidence
\* that is not zero.
C8_Confidence ==
    \A r \in Requests :
        Returned(r) =>
            \A c \in Classes :
                LET P == ClassPixels(r, c)
                IN  P # {} =>
                        /\ ConfOf(r, c).num * Cardinality(P) * ProbUnit
                              = ConfOf(r, c).den * ChannelSum(r, P, c)
                        /\ ConfOf(r, c).den > 0
                        /\ CircleOf(r, c) = None => ConfOf(r, c).num > 0

\* a class of several regions whose largest contour is rejected
C8_Witness ==
    \E r \in Requests :
        /\ Returned(r)
        /\ Len(ContoursOf[The(req[r].pred)][IRIS]) >= 2
        /\ req[r].iris_circle = None
        /\ The(req[r].iris_conf).num > 0

\* the contours findContours gave request r for class c
FoundContours(r, c) == ContoursOf[The(req[r].pred)][c]

\* contour i has the largest area, and is the first to have it
IsSelected(cs, i) ==
    /\ \A j \in 1 .. i - 1 : ContourArea2(cs[j]) < ContourArea2(cs[i])
    /\ \A j \in i + 1 .. Len(cs) : ContourArea2(cs[j]) <= ContourArea2(cs[i])

\* C9: fit_circle_from_mask gives a circle exactly when there is a contour
\* and the contour of largest area has at least five points; the circle is
\* computed from that contour alone.
C9_LargestContour ==
    \A r \in Requests :
        req[r].pc = "fitted" =>
            \A c \in Classes :
                LET cs == FoundContours(r, c)
                IN  /\ cs = <<>> => CircleOf(r, c) = None
                    /\ \A i \in 1 .. Len(cs) :
                          IsSelected(cs, i) =>
                              /\ CircleOf(r, c) # None <=> Len(cs[i]) >= 5
                              /\ CircleOf(r, c) # None =>
                                    /\ The(CircleOf(r, c)).radius
                                          = EffectiveRadius(cs[i])
                                    /\ <<The(CircleOf(r, c)).x, The(CircleOf(r, c)).y>>
                                          = Center(cs[i])

\* the largest contour has four points, a smaller one five: no circle
C9_Witness ==
    \E r \in Requests :
        /\ req[r].pc = "fitted"
        /\ req[r].iris_circle = None
        /\ LET cs == FoundContours(r, IRIS)
           IN  \E i, j \in 1 .. Len(cs) :
                   /\ IsSelected(cs, i)
                   /\ Len(cs[i]) < 5
                   /\ Len(cs[j]) >= 5
                   /\ ContourArea2(cs[j]) < ContourArea2(cs[i])

\* C10: a selected contour of zero area and at least five points gives a
\* circle of radius zero around the centre of its minimal enclosing circle;
\* nothing is raised, and with that circle as the iris the result has no
\* ratio.
C10_Degenerate ==
    \A r \in Requests :
        /\ req[r].pc = "fitted" =>
              \A c \in Classes :
                  LET cs == FoundContours(r, c)
                  IN  \A i \in 1 .. Len(cs) :
                          (/\ IsSelected(cs, i)
                           /\ ContourArea2(cs[i]) = 0
                           /\ Len(cs[i]) >= 5)
                          => /\ CircleOf(r, c) # None
                             /\ The(CircleOf(r, c)).radius = 0
                             /\ <<The(CircleOf(r, c)).x, The(CircleOf(r, c)).y>>
                                   = MinEnclosingCenter(cs[i])
        /\ (req[r].pc \in {"rescaled", "assembled", "raised"}
              /\ req[r].iris_circle # None
              /\ The(req[r].iris_circle).radius = 0)
           => /\ req[r].pc # "raised"
              /\ Returned(r) => The(req[r].result).ratio = None

\* a result with a pupil, an iris of radius zero and no ratio
C10_Witness ==
    \E r \in Requests :
        /\ Returned(r)
        /\ The(req[r].result).pupil # None
        /\ The(req[r].result).iris # None
        /\ The(The(req[r].result).iris).radius = 0
        /\ The(req[r].result).ratio = None

=============================================================================
